---- MODULE Spec2Model ----
(***************************************************************************)
(* Model of ocifs (layer.go): a read-only overlay file system obtained by  *)
(* stacking OCI image layers and honouring whiteout files.                 *)
(*                                                                         *)
(* Encoding of strings.  A file name is a sequence of tokens, so that      *)
(* string concatenation is \o and strings.HasPrefix is a prefix test:      *)
(*   "x"            is <<"x">>                                             *)
(*   ".wh.x"        is <<".wh.", "x">>                                     *)
(*   ".wh..wh..opq" is <<".wh.", ".wh.", ".opq">>                          *)
(* A path is the sequence of its slash-separated names; "." is <<>>.       *)
(***************************************************************************)
EXTENDS Integers, Sequences, FiniteSets, TLC

VARIABLES layers, file, ret, hist, todo, tree

vars == <<layers, file, ret, hist, todo, tree>>

(***************************************************************************)
(* Bounds of the model.                                                    *)
(***************************************************************************)
MaxLayers == 2

MaxCount == 2

MaxEntries == 2

MaxOffset == 2

WalkLayers == 3

(***************************************************************************)
(* Names and paths.                                                        *)
(***************************************************************************)
whiteoutPrefix == <<".wh.">>

whiteoutOpaque == <<".wh.", ".wh.", ".opq">>

HasPrefix(name, prefix) ==
    /\ Len(name) >= Len(prefix)
    /\ SubSeq(name, 1, Len(prefix)) = prefix

\* Faulty variant of TrimPrefix: the prefix is not cut off.
TrimPrefix_keep(name, prefix) == name

TrimPrefix(name, prefix) == SubSeq(name, Len(prefix) + 1, Len(name))

Front(p) == SubSeq(p, 1, Len(p) - 1)

Last(p) == p[Len(p)]

Range(s) == {s[i] : i \in 1..Len(s)}

RemoveAt(s, i) == SubSeq(s, 1, i - 1) \o SubSeq(s, i + 1, Len(s))

Reverse(s) == [i \in 1..Len(s) |-> s[Len(s) + 1 - i]]

\* Faulty variant of ValidPath: every path is taken as valid.
ValidPath_any(name) == TRUE

\* fs.ValidPath: no empty, "." or ".." element ("." itself is the empty path).
ValidPath(name) ==
    \A i \in 1..Len(name) : name[i] \notin {<<>>, <<".">>, <<"..">>}

\* whiteout(name): the two marker paths next to name, in its parent directory.
whiteoutNames(name) ==
    LET dir  == Front(name)
        base == Last(name)
    IN  <<Append(dir, whiteoutPrefix \o base), Append(dir, whiteoutOpaque)>>

(***************************************************************************)
(* Layers.  A layer is an fs.FS: here a finite tree, given as a function   *)
(* from the paths it holds to their kind.  id is the position of the layer *)
(* in application order (1 is the oldest).                                 *)
(***************************************************************************)
Kinds == {"dir", "file", "link"}

NA == <<"a">>

NX == <<"x">>

NY == <<"y">>

NZ == <<"z">>

\* The trees of the model: a may be a file or a directory that holds x (of
\* any kind, z below it when a directory), y and the two whiteout files.
PathUniverse ==
    { <<NA>>, <<NA, NX>>, <<NA, NY>>, <<NA, NX, NZ>>,
      <<NA, whiteoutPrefix \o NX>>, <<NA, whiteoutOpaque>> }

AllowedKinds(p) ==
    IF p = <<NA>> THEN {"dir", "file"}
    ELSE IF p = <<NA, NX>> THEN {"dir", "file", "link"}
    ELSE {"file"}

WellFormed(nodes) ==
    \A p \in DOMAIN nodes :
        /\ nodes[p] \in AllowedKinds(p)
        /\ Len(p) > 1 => /\ Front(p) \in DOMAIN nodes
                         /\ nodes[Front(p)] = "dir"

Trees(paths) ==
    UNION { { nodes \in [S -> Kinds] : WellFormed(nodes) } : S \in SUBSET paths }

\* Trees for the resolution of paths (no y) and for the listing of
\* directories (x a file, at most MaxEntries entries in a directory).
TreePool == Trees(PathUniverse \ { <<NA, NY>> })

FlatPool ==
    { t \in Trees(PathUniverse \ { <<NA, NX, NZ>> }) :
        /\ \A p \in DOMAIN t : Len(p) > 1 => t[p] = "file"
        /\ Cardinality({ p \in DOMAIN t : Len(p) > 1 }) <= MaxEntries }

StackPool(n) ==
    UNION { [1..k -> TreePool] : k \in 0..n }

\* fs.Stat(layer, name) without faults: the kind of name in the layer.
Kind(layer, name) ==
    IF name = <<>> THEN "dir"
    ELSE IF name \in DOMAIN layer.nodes THEN layer.nodes[name]
    ELSE "none"

\* Faulty variant of LayerFS: the layers are not reversed.
LayerFS_asGiven(trees) ==
    [i \in 1..Len(trees) |-> [id |-> i, nodes |-> trees[i]]]

\* LayerFS(layers...): the stack, reversed so that index 1 has the highest
\* priority (the most recently applied layer).
LayerFS(trees) ==
    Reverse([i \in 1..Len(trees) |-> [id |-> i, nodes |-> trees[i]]])

\* fs.Stat(layer, name): "none" is fs.ErrNotExist, "err" any other error.
\* fault is the set of <<layer id, path>> whose stat fails in this call.
Stat(layer, name, fault) ==
    IF <<layer.id, name>> \in fault THEN "err" ELSE Kind(layer, name)

RECURSIVE hasOneOf(_, _, _)
hasOneOf(layer, names, fault) ==
    IF names = <<>> THEN [exist |-> FALSE, err |-> "ok"]
    ELSE LET s == Stat(layer, Head(names), fault)
         IN  IF s = "err" THEN [exist |-> FALSE, err |-> "EIO"]
             ELSE IF s # "none" THEN [exist |-> TRUE, err |-> "ok"]
             ELSE hasOneOf(layer, Tail(names), fault)

\* Faulty variant of maskBelowFile: the layer that is not a directory
\* always stays visible.
maskBelowFile_keep(visibleLayers, i) == SubSeq(visibleLayers, 1, i)

\* A layer that is not a directory masks the layers below; it stays visible
\* itself only as the topmost one (if i == 0 { i++ }; visibleLayers[:i]).
maskBelowFile(visibleLayers, i) ==
    SubSeq(visibleLayers, 1, IF i = 1 THEN 1 ELSE i - 1)

\* The loop over the visible layers for one prefix of the path (the inner
\* for of lookup); i is the Go index plus one.
RECURSIVE lookupLevel(_, _, _, _)
lookupLevel(visibleLayers, i, prefix, fault) ==
    IF i > Len(visibleLayers) THEN [err |-> "ok", visible |-> visibleLayers]
    ELSE LET s == Stat(visibleLayers[i], prefix, fault)
         IN  IF s = "err" THEN [err |-> "EIO", visible |-> <<>>]
             ELSE IF s = "none"
             THEN lookupLevel(RemoveAt(visibleLayers, i), i, prefix, fault)
             ELSE IF s # "dir"
             THEN [err |-> "ok", visible |-> maskBelowFile(visibleLayers, i)]
             ELSE LET h == hasOneOf(visibleLayers[i], whiteoutNames(prefix), fault)
                  IN  IF h.err # "ok" THEN [err |-> h.err, visible |-> <<>>]
                      ELSE IF h.exist
                      THEN [err |-> "ok", visible |-> SubSeq(visibleLayers, 1, i)]
                      ELSE lookupLevel(visibleLayers, i + 1, prefix, fault)

\* The walk over the prefixes of the path (the outer for of lookup); walk is
\* the number of path elements already resolved.
RECURSIVE lookupWalk(_, _, _, _)
lookupWalk(visibleLayers, name, walk, fault) ==
    IF walk >= Len(name) \/ Len(visibleLayers) = 0
    THEN [err |-> "ok", visible |-> visibleLayers]
    ELSE LET r == lookupLevel(visibleLayers, 1, SubSeq(name, 1, walk + 1), fault)
         IN  IF r.err # "ok" THEN r
             ELSE lookupWalk(r.visible, name, walk + 1, fault)

lookup(stack, name, fault) ==
    IF ~ValidPath(name) THEN [err |-> "ErrNotExist", visible |-> <<>>]
    ELSE IF name = <<>> THEN [err |-> "ok", visible |-> stack]
    ELSE LET r == lookupWalk(stack, name, 0, fault)
         IN  IF r.err # "ok" THEN r
             ELSE IF Len(r.visible) = 0
             THEN [err |-> "ErrNotExist", visible |-> <<>>]
             ELSE r

(***************************************************************************)
(* Files.  An underlying file is what layer.Open(name) returns: rest is    *)
(* the set of directory entries its ReadDir has not returned yet, pos its  *)
(* read offset.  The order in which a layer lists its entries is not fixed *)
(* by fs.ReadDirFile: every ReadDir call of the model draws it.            *)
(***************************************************************************)
NoFile == [open |-> FALSE]

NilDirReader == [nil |-> TRUE]

NoRet == [op |-> "none"]

\* What the caller has seen of the open file: the entries ReadDir returned
\* since the dirReader was allocated, the names it returned more than once,
\* whether a Seek succeeded and whether every ReadDir so far had n > 0.
NoHist == [emitted |-> {}, twice |-> {}, seeked |-> FALSE, bounded |-> TRUE]

\* The entries of directory name in a layer, as fs.DirEntry values.
Listing(layer, name) ==
    { [name |-> Last(p), kind |-> layer.nodes[p], id |-> layer.id] :
        p \in { q \in DOMAIN layer.nodes : Front(q) = name } }

\* The content of a regular file: one unit that names the layer it is from.
Data(layer, name) == <<[id |-> layer.id, name |-> name]>>

\* layer.Open(name)
UnderOpen(layer, name) ==
    [id   |-> layer.id,
     kind |-> Kind(layer, name),
     all  |-> IF Kind(layer, name) = "dir" THEN Listing(layer, name) ELSE {},
     rest |-> IF Kind(layer, name) = "dir" THEN Listing(layer, name) ELSE {},
     data |-> IF Kind(layer, name) = "file" THEN Data(layer, name) ELSE <<>>,
     pos  |-> 0]

Ids(stack) == [i \in 1..Len(stack) |-> stack[i].id]

Min(a, b) == IF a < b THEN a ELSE b

Orders(S) == { o \in [1..Cardinality(S) -> S] : Range(o) = S }

RECURSIVE AllOrders(_)
AllOrders(under) ==
    IF under = <<>> THEN { <<>> }
    ELSE { <<o>> \o t : o \in Orders(Head(under).rest), t \in AllOrders(Tail(under)) }

\* No read of an underlying directory fails.
NoFail == [layer |-> 0, part |-> 0]

\* ReadDir(k) of an underlying directory that lists ord next.  When the read
\* fails it returns the part entries it had read, and an error that is not
\* io.EOF.
UnderReadDir(ord, k, fails, part) ==
    IF fails
    THEN LET m == Min(part, IF k > 0 THEN Min(k, Len(ord)) ELSE Len(ord))
         IN  [entries |-> SubSeq(ord, 1, m),
              rest    |-> SubSeq(ord, m + 1, Len(ord)),
              err     |-> "EIO"]
    ELSE IF k <= 0 THEN [entries |-> ord, rest |-> <<>>, err |-> "ok"]
    ELSE IF ord = <<>> THEN [entries |-> <<>>, rest |-> <<>>, err |-> "EOF"]
    ELSE [entries |-> SubSeq(ord, 1, Min(k, Len(ord))),
          rest    |-> SubSeq(ord, Min(k, Len(ord)) + 1, Len(ord)),
          err     |-> "ok"]

\* Faulty variant of opaqueCut: the opaque whiteout drops no layer.
opaqueCut_none(files) == files

\* An opaque whiteout drops the layers below: dir.files = dir.files[:1]
opaqueCut(files) == SubSeq(files, 1, 1)

\* Faulty variant of scanEntries: a name is added to the mask set as soon as
\* its entry is read.
RECURSIVE scanEntries_maskNow(_, _)
scanEntries_maskNow(entries, st) ==
    IF entries = <<>> THEN st
    ELSE LET entry == Head(entries)
             name  == entry.name
         IN  IF name \in st.masks THEN scanEntries_maskNow(Tail(entries), st)
             ELSE IF name = whiteoutOpaque
             THEN scanEntries_maskNow(Tail(entries),
                                      [st EXCEPT !.files = opaqueCut(@)])
             ELSE IF HasPrefix(name, whiteoutPrefix)
             THEN scanEntries_maskNow(Tail(entries),
                      [st EXCEPT !.masks =
                          @ \cup {TrimPrefix(name, whiteoutPrefix)}])
             ELSE scanEntries_maskNow(Tail(entries),
                      [st EXCEPT !.masks = @ \cup {name},
                                 !.out   = Append(@, entry)])

\* The body of "for _, entry := range entries" of scan.  st holds the
\* dirReader fields and out, the entries handed to the callback.
RECURSIVE scanEntries(_, _)
scanEntries(entries, st) ==
    IF entries = <<>> THEN st
    ELSE LET entry == Head(entries)
             name  == entry.name
         IN  IF name \in st.masks THEN scanEntries(Tail(entries), st)
             ELSE IF name = whiteoutOpaque
             THEN scanEntries(Tail(entries),
                              [st EXCEPT !.files = opaqueCut(@)])
             ELSE IF HasPrefix(name, whiteoutPrefix)
             THEN scanEntries(Tail(entries),
                              [st EXCEPT !.names =
                                  Append(@, TrimPrefix(name, whiteoutPrefix))])
             ELSE scanEntries(Tail(entries),
                              [st EXCEPT !.names = Append(@, name),
                                         !.out   = Append(@, entry)])

\* Faulty variant of scanCommit: the names of the drained layer are dropped.
scanCommit_forget(st) ==
    [st EXCEPT !.names = <<>>, !.files = Tail(@)]

\* Moving to the next layer: the names of the drained layer become masks.
scanCommit(st) ==
    [st EXCEPT !.masks = @ \cup Range(st.names),
               !.names = <<>>,
               !.files = Tail(@)]

\* The loops of scan.  ords[i] is what underlying file i lists next;
\* dirents is Len(st.out).  The first read of layer fail.layer in this call
\* fails; st.failed records the layer whose read has failed.
RECURSIVE scanLoop(_, _, _, _)
scanLoop(st, ords, n, fail) ==
    IF st.files = <<>>
    THEN [st |-> st, ords |-> ords,
          err |-> IF Len(st.out) < n THEN "EOF" ELSE "ok"]
    ELSE LET cur   == Head(st.files)
             fails == cur = fail.layer /\ st.failed = 0
             r     == UnderReadDir(ords[cur], n - Len(st.out), fails, fail.part)
             st0   == IF fails THEN [st EXCEPT !.failed = cur] ELSE st
             st1   == scanEntries(r.entries, st0)
             od1   == [ords EXCEPT ![cur] = r.rest]
         IN  IF n = 0 \/ r.err = "EOF"
             THEN scanLoop(scanCommit(st1), od1, n, fail)
             ELSE IF n = Len(st1.out) \/ r.err # "ok"
             THEN [st |-> st1, ords |-> od1, err |-> r.err]
             ELSE scanLoop(st1, od1, n, fail)

\* Faulty variant of scan: the pending names do not survive the call.
scan_dropPending(dir, ords, n, fail) ==
    scanLoop([files |-> dir.files, names |-> <<>>, masks |-> dir.masks,
              out |-> <<>>, failed |-> 0], ords, n, fail)

\* dirReader.scan(n, f) on the dirReader dir
scan(dir, ords, n, fail) ==
    scanLoop([files |-> dir.files, names |-> dir.names, masks |-> dir.masks,
              out |-> <<>>, failed |-> 0], ords, n, fail)

\* The dirReader that layerFile.ReadDir allocates on first use.
NewDirReader(under) ==
    [nil   |-> FALSE,
     files |-> SelectSeq([i \in 1..Len(under) |-> i],
                         LAMBDA i : under[i].kind = "dir"),
     names |-> <<>>,
     masks |-> {}]

(***************************************************************************)
(* File modes.  An fs.FileMode is the set of its bits that are set, so     *)
(* that & is intersection and ^ the complement within the 32 bits.         *)
(***************************************************************************)
RECURSIVE BitsFrom(_, _)
BitsFrom(n, b) ==
    IF n = 0 THEN {}
    ELSE (IF n % 2 = 1 THEN {b} ELSE {}) \cup BitsFrom(n \div 2, b + 1)

Bits(n) == BitsFrom(n, 0)

WriteBits == 146

\* fs.ModeDir is bit 31 and fs.ModeSymlink bit 27 of a FileMode.
TypeBits(kind) ==
    IF kind = "dir" THEN {31} ELSE IF kind = "link" THEN {27} ELSE {}

PermPool == { Bits(292), Bits(420), Bits(146), Bits(493), Bits(511) }

\* Faulty variant of Mode: only the owner's write bit is cleared.
Mode_ownerOnly(mode) == mode \cap ((0..31) \ Bits(128))

\* layerInfo.Mode: mode &= ^fs.FileMode(0222)
Mode(mode) == mode \cap ((0..31) \ Bits(WriteBits))

(***************************************************************************)
(* The operations of layerFS.                                              *)
(***************************************************************************)
CapSets == { {}, {"ReaderAt", "Seeker"} }

Prefixes(name) == { SubSeq(name, 1, k) : k \in 1..Len(name) }

\* The failures one call may meet: none, the stat of one layer failing on
\* a prefix of the path or on its whiteout file (fault), or the open or
\* rebase of the failAt-th visible layer failing.
Faults(name) ==
    { {} } \cup
    { {<<i, q>>} : i \in 1..Len(layers),
                   q \in IF name = <<>> THEN {}
                         ELSE Prefixes(name) \cup { whiteoutNames(name)[1] } }

\* The paths whose stat is set to fail, as recorded with the result of a call.
FaultPaths(fault) == { f[2] : f \in fault }

Failures(name) ==
    { [fault |-> f, failAt |-> 0] : f \in Faults(name) } \cup
    { [fault |-> {}, failAt |-> i] : i \in 1..Len(layers) }

\* The paths of the calls; the last two, a/../x and /a, are not valid.
OpenNames ==
    { <<>>, <<NA>>, <<NA, NX>>, <<NA, NX, NZ>>, <<NA, NY>>,
      <<NA, <<"..">>, NX>>, <<<<>>, NA>> }

\* Faulty variant of deferredClose: the files opened before the open that
\* failed stay open.
deferredClose_leak(files, succeeded) == <<>>

\* The deferred calls of Open, run last first: files = nil when every open
\* succeeded, then Close of every file that is in files.
deferredClose(files, succeeded) == IF succeeded THEN <<>> ELSE files

\* Open(name): the open of the failAt-th visible layer fails (0: none does).
Open(name, fault, failAt, caps) ==
    /\ ~file.open
    /\ LET r == lookup(layers, name, fault)
           k == Len(r.visible)
           files == SubSeq(Ids(r.visible), 1, IF failAt > 0 THEN failAt - 1 ELSE k)
       IN  /\ failAt <= k
           /\ IF r.err # "ok"
              THEN /\ file' = NoFile
                   /\ ret' = [op |-> "Open", name |-> name, fault |-> FaultPaths(fault),
                              err |-> r.err,
                              visible |-> <<>>, opened |-> <<>>, closed |-> <<>>]
              ELSE IF failAt > 0
              THEN /\ file' = NoFile
                   /\ ret' = [op |-> "Open", name |-> name, fault |-> FaultPaths(fault),
                              err |-> "EIO",
                              visible |-> Ids(r.visible),
                              opened  |-> files,
                              closed  |-> deferredClose(files, FALSE)]
              ELSE /\ file' = [open      |-> TRUE,
                               name      |-> name,
                               layers    |-> [i \in 1..k |-> UnderOpen(r.visible[i], name)],
                               dirReader |-> NilDirReader,
                               caps      |-> caps]
                   /\ ret' = [op |-> "Open", name |-> name, fault |-> FaultPaths(fault),
                              err |-> "ok",
                              visible |-> Ids(r.visible),
                              opened  |-> files,
                              closed  |-> deferredClose(files, TRUE)]
    /\ hist' = NoHist
    /\ UNCHANGED <<layers, todo, tree>>

\* Faulty variant of Rebase: the layer is not rooted anew.
Rebase_same(layer, name) == layer

\* fslink.Sub(layer, name): the layer rooted at name.
Rebase(layer, name) ==
    LET below == { p \in DOMAIN layer.nodes :
                     Len(p) > Len(name) /\ SubSeq(p, 1, Len(name)) = name }
    IN  [id    |-> layer.id,
         nodes |-> [q \in { SubSeq(p, Len(name) + 1, Len(p)) : p \in below }
                      |-> layer.nodes[name \o q]]]

\* lookup(".") returns the slice of the stack itself; for every other name
\* it returns a copy (append([]fs.FS{}, layers...)).
sharesStack(name) == name = <<>>

\* Sub(name): the rebase of the failAt-th visible layer fails (0: none
\* does).  wrote are the indices of the stack that visibleLayers[i] = layer
\* has assigned to.
Sub(name, fault, failAt) ==
    /\ ~file.open
    /\ LET r == lookup(layers, name, fault)
           k == Len(r.visible)
           m == IF failAt > 0 THEN failAt - 1 ELSE k
           w == [i \in 1..k |-> IF i <= m THEN Rebase(r.visible[i], name)
                                ELSE r.visible[i]]
       IN  /\ failAt <= k
           /\ IF r.err # "ok"
              THEN /\ ret' = [op |-> "Sub", name |-> name, fault |-> FaultPaths(fault),
                              err |-> r.err,
                              visible |-> <<>>, sub |-> <<>>, wrote |-> {}]
                   /\ layers' = layers
              ELSE /\ layers' = IF sharesStack(name) THEN w ELSE layers
                   /\ ret' = [op |-> "Sub", name |-> name, fault |-> FaultPaths(fault),
                              err |-> IF failAt > 0 THEN "EIO" ELSE "ok",
                              visible |-> Ids(r.visible),
                              sub |-> IF failAt > 0 THEN <<>> ELSE w,
                              wrote |-> IF sharesStack(name) THEN 1..m ELSE {}]
    /\ UNCHANGED <<file, hist, todo, tree>>

\* fslink.ReadLink(layer, name)
UnderReadLink(layer, name) ==
    IF Kind(layer, name) = "link"
    THEN [err |-> "ok", link |-> <<[id |-> layer.id, name |-> name]>>]
    ELSE IF Kind(layer, name) = "none"
    THEN [err |-> "ErrNotExist", link |-> <<>>]
    ELSE [err |-> "ErrInvalid", link |-> <<>>]

RECURSIVE readLinkLoop(_, _)
readLinkLoop(visibleLayers, name) ==
    IF visibleLayers = <<>> THEN [err |-> "ErrNotExist", link |-> <<>>]
    ELSE LET l == UnderReadLink(Head(visibleLayers), name)
         IN  IF l.err = "ok" THEN l
             ELSE IF l.err \in {"ErrNotExist", "ErrInvalid"}
             THEN readLinkLoop(Tail(visibleLayers), name)
             ELSE l

ReadLink(name, fault) ==
    /\ ~file.open
    /\ LET r == lookup(layers, name, fault)
           l == readLinkLoop(r.visible, name)
       IN  ret' = IF r.err # "ok"
                  THEN [op |-> "ReadLink", name |-> name, fault |-> FaultPaths(fault),
                        err |-> r.err,
                        visible |-> <<>>, link |-> <<>>]
                  ELSE [op |-> "ReadLink", name |-> name, fault |-> FaultPaths(fault),
                        err |-> l.err,
                        visible |-> Ids(r.visible), link |-> l.link]
    /\ UNCHANGED <<layers, file, hist, todo, tree>>

(***************************************************************************)
(* The operations of layerFile.                                            *)
(***************************************************************************)
\* The loop of Close: every layer is closed, whatever layer.Close returns.
RECURSIVE closeLoop(_, _)
closeLoop(files, failing) ==
    IF files = <<>> THEN [closed |-> <<>>, ignored |-> {}]
    ELSE LET id == Head(files).id
             t  == closeLoop(Tail(files), failing)
         IN  [closed  |-> <<id>> \o t.closed,
              ignored |-> (IF id \in failing THEN {id} ELSE {}) \cup t.ignored]

\* Close; failing are the layers whose Close returns an error.
Close(failing) ==
    /\ file.open
    /\ file' = NoFile
    /\ LET c == closeLoop(file.layers, failing)
       IN  ret' = [op |-> "Close", err |-> "ok", closed |-> c.closed,
                   ignored |-> c.ignored]
    /\ hist' = NoHist
    /\ UNCHANGED <<layers, todo, tree>>

\* Stat: perm is the permission the underlying file reports, fails whether
\* its Stat returns an error.
FileStat(perm, fails) ==
    /\ file.open
    /\ ret' = IF Len(file.layers) = 0
              THEN [op |-> "Stat", err |-> "panic"]
              ELSE IF fails
              THEN [op |-> "Stat", err |-> "EIO", from |-> file.layers[1].id]
              ELSE LET under == TypeBits(file.layers[1].kind) \cup perm
                   IN  [op |-> "Stat", err |-> "ok", from |-> file.layers[1].id,
                        under |-> under, mode |-> Mode(under)]
    /\ UNCHANGED <<layers, file, hist, todo, tree>>

\* Read of an underlying file: the rest of its content.
UnderRead(u, pos) ==
    IF u.kind = "dir" THEN [err |-> "EISDIR", data |-> <<>>]
    ELSE IF pos >= Len(u.data) THEN [err |-> "EOF", data |-> <<>>]
    ELSE [err |-> "ok", data |-> SubSeq(u.data, pos + 1, Len(u.data))]

Read ==
    /\ file.open
    /\ IF Len(file.layers) = 0
       THEN /\ ret' = [op |-> "Read", err |-> "panic"]
            /\ file' = file
       ELSE LET u == file.layers[1]
                r == UnderRead(u, u.pos)
            IN  /\ ret' = [op |-> "Read", err |-> r.err, from |-> u.id,
                           data |-> r.data]
                /\ file' = [file EXCEPT !.layers[1].pos = @ + Len(r.data)]
    /\ UNCHANGED <<layers, hist, todo, tree>>

ReadAt(offset) ==
    /\ file.open
    /\ ret' = IF Len(file.layers) = 0
              THEN [op |-> "ReadAt", err |-> "panic"]
              ELSE IF "ReaderAt" \notin file.caps
              THEN [op |-> "ReadAt", err |-> "ErrInvalid"]
              ELSE LET u == file.layers[1]
                       r == UnderRead(u, offset)
                   IN  [op |-> "ReadAt", err |-> r.err, from |-> u.id,
                        data |-> r.data]
    /\ UNCHANGED <<layers, file, hist, todo, tree>>

\* The offset of an underlying file; for a directory, how far it was listed.
UnderPos(u) ==
    IF u.kind = "dir" THEN Cardinality(u.all \ u.rest) ELSE u.pos

\* Seek of an underlying file.  A directory supports rewinding (offset 0
\* from the start) and asking for its position.
SeekTarget(u, offset, whence) ==
    IF whence = "SeekStart" THEN offset ELSE UnderPos(u) + offset

UnderSeek(u, offset, whence) ==
    LET to == SeekTarget(u, offset, whence)
    IN  IF u.kind = "dir"
        THEN IF to = 0
             THEN [err |-> "ok", offset |-> 0,
                   file |-> [u EXCEPT !.rest = u.all]]
             ELSE IF to = UnderPos(u)
             THEN [err |-> "ok", offset |-> to, file |-> u]
             ELSE [err |-> "EINVAL", offset |-> 0, file |-> u]
        ELSE [err |-> "ok", offset |-> to, file |-> [u EXCEPT !.pos = to]]

Seek(offset, whence) ==
    /\ file.open
    /\ Len(file.layers) > 0 => SeekTarget(file.layers[1], offset, whence) <= MaxOffset
    /\ IF Len(file.layers) = 0
       THEN /\ ret' = [op |-> "Seek", err |-> "panic"]
            /\ UNCHANGED <<file, hist>>
       ELSE IF "Seeker" \notin file.caps
       THEN /\ ret' = [op |-> "Seek", err |-> "ErrInvalid"]
            /\ UNCHANGED <<file, hist>>
       ELSE LET r == UnderSeek(file.layers[1], offset, whence)
            IN  /\ ret' = [op |-> "Seek", err |-> r.err, from |-> file.layers[1].id,
                           offset |-> r.offset]
                /\ file' = [file EXCEPT
                              !.layers[1] = r.file,
                              !.dirReader =
                                  IF r.err = "ok" /\ r.offset = 0 /\ ~file.dirReader.nil
                                  THEN NilDirReader ELSE @]
                /\ hist' = IF r.err # "ok" THEN hist
                           ELSE IF r.offset = 0 /\ ~file.dirReader.nil
                           THEN [NoHist EXCEPT !.seeked = TRUE]
                           ELSE [hist EXCEPT !.seeked = TRUE]
    /\ UNCHANGED <<layers, todo, tree>>

\* ReadDir(n); ords is the order in which each underlying directory lists
\* the entries it has left, fail the read of an underlying directory that
\* fails during the call.
ReadDir(n, ords, fail) ==
    /\ file.open
    /\ LET dir == IF file.dirReader.nil THEN NewDirReader(file.layers)
                  ELSE file.dirReader
           r   == scan(dir, ords, IF n < 0 THEN 0 ELSE n, fail)
       IN  /\ file' = [file EXCEPT
                         !.layers = [i \in 1..Len(file.layers) |->
                                       [file.layers[i] EXCEPT !.rest = Range(r.ords[i])]],
                         !.dirReader = [nil   |-> FALSE,
                                        files |-> r.st.files,
                                        names |-> r.st.names,
                                        masks |-> r.st.masks]]
           /\ ret' = [op |-> "ReadDir", n |-> n, err |-> r.err,
                      entries |-> r.st.out, failed |-> r.st.failed]
           /\ hist' = [hist EXCEPT
                         !.emitted = @ \cup Range(r.st.out),
                         !.twice   = @ \cup
                             { r.st.out[i].name : i \in
                                 { j \in 1..Len(r.st.out) :
                                     \/ \E e \in hist.emitted : e.name = r.st.out[j].name
                                     \/ \E k \in 1..(j - 1) :
                                          r.st.out[k].name = r.st.out[j].name } },
                         !.bounded = @ /\ n > 0]
    /\ UNCHANGED <<layers, todo, tree>>

\* Info().Mode() of the i-th entry of the last ReadDir.  The entry is the
\* fs.DirEntry of the layer itself: scan hands it to the callback, and the
\* callback appends it to the result, without wrapping it in a layerInfo.
\* perm is the permission the layer reports for the entry.
EntryInfo(i, perm) ==
    /\ file.open
    /\ ret.op = "ReadDir"
    /\ i \in 1..Len(ret.entries)
    /\ LET under == TypeBits(ret.entries[i].kind) \cup perm
       IN  ret' = [op |-> "Info", err |-> "ok", name |-> ret.entries[i].name,
                   from |-> ret.entries[i].id, under |-> under, mode |-> under]
    /\ UNCHANGED <<layers, file, hist, todo, tree>>

(***************************************************************************)
(* Walking the merged file system, as fstest.EqualFS does in TestLayerFS:  *)
(* every directory reached from the root is opened and listed with         *)
(* ReadDir(-1), and every file found is opened for its content.            *)
(***************************************************************************)
\* fstest.MapFS: the named files, and their parents as directories.
MapFS(files) ==
    LET named   == { f[1] : f \in files }
        implied == (UNION { Prefixes(q) : q \in named }) \ named
    IN  [q \in named \cup implied |->
           IF q \in named THEN (CHOOSE f \in files : f[1] = q)[2] ELSE "dir"]

TestLayers ==
    LET a == <<"a">>  b == <<"b">>  c == <<"c">>  d == <<"d">>  e == <<"e">>
        x == <<"x">>
    IN  << MapFS({ <<<<a>>, "dir">>, <<<<a, x>>, "dir">>,
                   <<<<a, x, <<"one">>>>, "file">>,
                   <<<<a, x, <<"two">>>>, "file">> }),
           MapFS({ <<<<a, b>>, "dir">>, <<<<a, x, <<"two">>>>, "file">> }),
           MapFS({ <<<<a, b, c>>, "dir">>, <<<<a, b, c, d>>, "dir">>,
                   <<<<a, b, c, d, e>>, "dir">>,
                   <<<<a, x, whiteoutOpaque>>, "file">>,
                   <<<<a, x, <<"three">>>>, "file">> }),
           MapFS({ <<<<a, b, c, <<"file-0">>>>, "file">>,
                   <<<<a, b, c, d, <<"nope">>>>, "file">> }),
           MapFS({ <<<<a, b, c, <<"file-1">>>>, "file">>,
                   <<<<a, b, c, whiteoutPrefix \o d>>, "dir">> }) >>

\* The layer whose file Open(name) reads, 0 when there is none.
ContentId(stack, name) ==
    LET r == lookup(stack, name, {})
    IN  IF r.err = "ok" /\ Len(r.visible) > 0 THEN r.visible[1].id ELSE 0

\* fs.ReadDir(fsys, name): Open, ReadDir(-1), Close.
ListDir(stack, name, ords) ==
    LET r     == lookup(stack, name, {})
        under == [i \in 1..Len(r.visible) |-> UnderOpen(r.visible[i], name)]
    IN  IF r.err # "ok" THEN <<>>
        ELSE scan(NewDirReader(under), ords, 0, NoFail).st.out

OrdersAt(stack, name) ==
    LET r == lookup(stack, name, {})
    IN  AllOrders([i \in 1..Len(r.visible) |-> UnderOpen(r.visible[i], name)])

WalkDir(name, ords) ==
    /\ name \in todo
    /\ LET out   == ListDir(layers, name, ords)
           found == { Append(name, out[i].name) : i \in 1..Len(out) }
           info  == [q \in found |->
                       LET e == CHOOSE e \in Range(out) : Append(name, e.name) = q
                       IN  [kind |-> e.kind,
                            id   |-> IF e.kind = "dir" THEN 0
                                     ELSE ContentId(layers, q)]]
       IN  /\ tree' = [q \in DOMAIN tree \cup found |->
                         IF q \in found THEN info[q] ELSE tree[q]]
           /\ todo' = (todo \ {name}) \cup { q \in found : info[q].kind = "dir" }
    /\ UNCHANGED <<layers, file, ret, hist>>

(***************************************************************************)
(* Specifications.                                                         *)
(***************************************************************************)
Idle ==
    /\ file = NoFile
    /\ ret = NoRet
    /\ hist = NoHist

\* The resolution of paths: Open, Sub and ReadLink on every stack of up to
\* MaxLayers layers.
Init ==
    /\ layers \in { LayerFS(t) : t \in StackPool(MaxLayers) }
    /\ Idle
    /\ todo = {}
    /\ tree = <<>>

\* The caller takes the result of a call before it makes the next one.
Return ==
    /\ ~file.open
    /\ ret # NoRet
    /\ ret' = NoRet
    /\ UNCHANGED <<layers, file, hist, todo, tree>>

Next ==
    \/ /\ ret = NoRet
       /\ \E name \in OpenNames : \E f \in Failures(name) : \E caps \in CapSets :
            Open(name, f.fault, f.failAt, caps)
    \/ /\ ret = NoRet
       /\ \E name \in OpenNames : \E f \in Failures(name) :
            Sub(name, f.fault, f.failAt)
    \/ /\ ret = NoRet
       /\ \E name \in OpenNames : \E fault \in Faults(name) : ReadLink(name, fault)
    \/ /\ file.open
       /\ \E failing \in SUBSET Range(Ids(file.layers)) : Close(failing)
    \/ Return

Spec == Init /\ [][Next]_vars

\* The open file: directories of files, listed and read through one handle.
InitFile ==
    /\ layers \in { LayerFS(t) : t \in UNION { [1..k -> FlatPool] : k \in 0..MaxLayers } }
    /\ Idle
    /\ todo = {}
    /\ tree = <<>>

NextFile ==
    \/ \E name \in { <<>>, <<NA>>, <<NA, NX>> } : \E caps \in CapSets :
         Open(name, {}, 0, caps)
    \/ \E offset \in {0, 1} : \E whence \in {"SeekStart", "SeekCurrent"} :
         Seek(offset, whence)
    \/ \E perm \in PermPool : \E fails \in BOOLEAN : FileStat(perm, fails)
    \/ Read
    \/ \E offset \in {0, 1} : ReadAt(offset)
    \/ Close({})

SpecFile == InitFile /\ [][NextFile]_vars

\* The listing of an open directory by any sequence of ReadDir calls.
NextDir ==
    \/ \E name \in { <<>>, <<NA>> } : Open(name, {}, 0, {})
    \/ /\ file.open
       /\ \E n \in -1..MaxCount : \E ords \in AllOrders(file.layers) :
            ReadDir(n, ords, NoFail)
    \/ Close({})

SpecDir == InitFile /\ [][NextDir]_vars

\* The failures of the reads of the underlying directories of the open file.
FailPool ==
    { NoFail } \cup
    { [layer |-> i, part |-> p] : i \in 1..Len(file.layers), p \in 0..1 }

\* The listing of an open directory whose layers may fail to read and report
\* any permissions for their entries.
NextDirIO ==
    \/ \E name \in { <<>>, <<NA>> } : Open(name, {}, 0, {})
    \/ /\ file.open
       /\ \E n \in -1..MaxCount : \E ords \in AllOrders(file.layers) :
            \E fail \in FailPool : ReadDir(n, ords, fail)
    \/ \E i \in 1..MaxEntries : \E perm \in PermPool : EntryInfo(i, perm)
    \/ \E perm \in PermPool : FileStat(perm, FALSE)
    \/ Close({})

SpecDirIO == InitFile /\ [][NextDirIO]_vars

\* The listing of an open directory that the caller rewinds with Seek.
NextSeek ==
    \/ \E name \in { <<>>, <<NA>> } : \E caps \in CapSets : Open(name, {}, 0, caps)
    \/ /\ file.open
       /\ \E n \in -1..MaxCount : \E ords \in AllOrders(file.layers) :
            ReadDir(n, ords, NoFail)
    \/ Seek(0, "SeekStart")
    \/ Close({})

SpecSeek == InitFile /\ [][NextSeek]_vars

\* The walk of the merged file system.
InitWalk ==
    /\ layers \in { LayerFS(t) : t \in StackPool(WalkLayers) \cup {TestLayers} }
    /\ Idle
    /\ todo = { <<>> }
    /\ tree = <<>>

NextWalk ==
    \E name \in todo : \E ords \in OrdersAt(layers, name) : WalkDir(name, ords)

SpecWalk == InitWalk /\ [][NextWalk]_vars

(***************************************************************************)
(* Properties.                                                             *)
(***************************************************************************)
IsPrefixOf(p, q) == Len(p) <= Len(q) /\ SubSeq(q, 1, Len(p)) = p

IsWhiteout(name) == HasPrefix(name, whiteoutPrefix)

Resolved == ret.op \in {"Open", "Sub", "ReadLink"} /\ ret.visible # <<>>

LayerOf(id) == CHOOSE l \in Range(layers) : l.id = id

\* The tree obtained by applying the layers oldest to newest: a layer adds or
\* replaces its entries, .wh.x deletes x and what is below it from the older
\* content, and .wh..wh..opq deletes the older content of its directory.
\* A file is recorded with the layer it is from.
ApplyLayer(t, layer) ==
    LET marks == { p \in DOMAIN layer.nodes : IsWhiteout(Last(p)) }
        del   == { Append(Front(p), TrimPrefix(Last(p), whiteoutPrefix)) :
                     p \in { q \in marks : Last(q) # whiteoutOpaque } }
        opq   == { Front(p) : p \in { q \in marks : Last(q) = whiteoutOpaque } }
        add   == DOMAIN layer.nodes \ marks
        gone(q) ==
            \/ \E d \in del : IsPrefixOf(d, q)
            \/ \E o \in opq : IsPrefixOf(o, q) /\ o # q
            \/ \E p \in add : IsPrefixOf(p, q) /\ (p = q \/ layer.nodes[p] # "dir")
        kept  == { q \in DOMAIN t : ~gone(q) }
    IN  [q \in kept \cup add |->
           IF q \in add
           THEN [kind |-> layer.nodes[q],
                 id   |-> IF layer.nodes[q] = "dir" THEN 0 ELSE layer.id]
           ELSE t[q]]

RECURSIVE ApplyFrom(_, _, _)
ApplyFrom(t, stack, i) ==
    IF i = 0 THEN t ELSE ApplyFrom(ApplyLayer(t, stack[i]), stack, i - 1)

Applied(stack) == ApplyFrom(<<>>, stack, Len(stack))

\* C1: when the walk of the merged file system from the root is complete,
\* the tree it found equals the tree obtained by applying the layers oldest
\* to newest, files having the content of their newest defining layer.
C1_WalkEqualsApplied ==
    todo = {} => tree = Applied(layers)

\* The walk of the five layers of TestLayerFS alone finds the expected tree.
TestWalkExpected ==
    (todo = {} /\ Len(layers) = Len(TestLayers) /\ layers = LayerFS(TestLayers))
        => tree = Applied(layers)

\* C2: if a layer holds the whiteout d/.wh.x, resolving d/x or a path below
\* it never yields a visible layer of lower priority than that layer,
\* whether or not the layer defines d/x.
C2_WhiteoutMasksLowerLayers ==
    Resolved =>
        \A q \in Prefixes(ret.name) : \A l \in Range(layers) :
            whiteoutNames(q)[1] \in DOMAIN l.nodes =>
                \A id \in Range(ret.visible) : id >= l.id

\* C3: if a layer holds the opaque whiteout d/.wh..wh..opq, resolving d/y or
\* a path below it never yields a visible layer of lower priority than that
\* layer, whether or not the layer defines d/y.
C3_OpaqueMasksLowerLayers ==
    Resolved =>
        \A q \in Prefixes(ret.name) : \A l \in Range(layers) :
            whiteoutNames(q)[2] \in DOMAIN l.nodes =>
                \A id \in Range(ret.visible) : id >= l.id

\* C4: if a layer H defines p as a non-directory, the visible set of p and
\* of every path below p holds no layer of lower priority than H, and H is
\* visible at p only as the highest-priority layer that defines p, and then
\* it is the only visible layer.
C4_NonDirectoryMasks ==
    Resolved =>
        \A p \in Prefixes(ret.name) : \A H \in Range(layers) :
            Kind(H, p) \in {"file", "link"} =>
                /\ \A id \in Range(ret.visible) : id >= H.id
                /\ (p = ret.name /\ H.id \in Range(ret.visible)) =>
                       /\ ret.visible = <<H.id>>
                       /\ \A l \in Range(layers) :
                            l.id > H.id => Kind(l, p) = "none"

\* Open of a/x where the newest layer has it as a file and the older one as
\* a directory: only the newest layer is visible.
C4_Witness ==
    /\ ret.op = "Open" /\ ret.err = "ok"
    /\ ret.name = <<NA, NX>>
    /\ Len(layers) = 2
    /\ Kind(layers[1], ret.name) = "file"
    /\ Kind(layers[2], ret.name) = "dir"
    /\ ret.visible = <<layers[1].id>>

\* The state of an open directory that has been listed to its end.
Listed == file.open /\ ~file.dirReader.nil /\ file.dirReader.files = <<>>

Names(entries) == { e.name : e \in entries }

\* The open layers that are directories, in priority order: the layers
\* the listing merges.
DirLayers == SelectSeq(file.layers, LAMBDA u : u.kind = "dir")

HasOpaque(u) == whiteoutOpaque \in Names(u.all)

HidesName(u, name) == (whiteoutPrefix \o name) \in Names(u.all)

\* Entry name of the i-th listed layer is masked by a whiteout of a layer
\* of higher priority.
MaskedAbove(i, name) ==
    \E h \in 1..(i - 1) : HasOpaque(DirLayers[h]) \/ HidesName(DirLayers[h], name)

FreshListing ==
    Range(ListDir(layers, file.name,
                  CHOOSE o \in OrdersAt(layers, file.name) : TRUE))

\* C8: a directory listed to its end by calls with bounded counts has
\* returned exactly the entries one ReadDir(-1) returns on a fresh handle,
\* none of them twice.
C8_BoundedEqualsUnbounded ==
    (Listed /\ hist.bounded) =>
        /\ hist.emitted = FreshListing
        /\ hist.twice = {}

\* A listing in calls of one entry that went through a whiteout, a masked
\* entry and a layer boundary.
C8_Witness ==
    /\ Listed /\ hist.bounded
    /\ ret.op = "ReadDir" /\ ret.n = 1 /\ ret.err = "EOF"
    /\ Len(file.layers) = 2
    /\ Names(file.layers[1].all) = { whiteoutPrefix \o NX, NY }
    /\ Names(file.layers[2].all) = { NX, NY }
    /\ Names(hist.emitted) = { NY }

\* The layers that define the name of the open file.
Defining == { l \in Range(layers) : Kind(l, file.name) # "none" }

NoWhiteouts ==
    \A l \in Range(layers) : \A p \in DOMAIN l.nodes : ~IsWhiteout(Last(p))

\* C9: when a path is a regular file in several layers and no whiteout is
\* involved, Read, ReadAt, Seek and Stat on the file Open returned use the
\* file of the most recently applied layer that defines the path.
C9_NewestLayerWins ==
    ( /\ file.open
      /\ NoWhiteouts
      /\ Cardinality({ l \in Range(layers) : Kind(l, file.name) = "file" }) >= 2
      /\ ret.op \in {"Read", "ReadAt", "Seek", "Stat"}
      /\ ret.err \notin {"panic", "ErrInvalid"} ) =>
        /\ \A l \in Defining : l.id <= ret.from
        /\ ret.from \in { l.id : l \in Defining }
        /\ file.layers[1].id = ret.from
        /\ ret.op \in {"Read", "ReadAt"} =>
               \A d \in Range(ret.data) : d = [id |-> ret.from, name |-> file.name]

\* Read of a/x, a regular file in both layers: the content is the one of
\* the layer applied last.
C9_Witness ==
    /\ file.open /\ Len(layers) = 2
    /\ ret.op = "Read" /\ ret.err = "ok"
    /\ \A l \in Range(layers) : Kind(l, file.name) = "file"
    /\ NoWhiteouts
    /\ ret.data = <<[id |-> 2, name |-> file.name]>>

\* C10: the mode Stat reports has none of the write bits 0222 (bits 1, 4
\* and 7) and is otherwise the mode the file of the highest-priority
\* visible layer reports.
C10_StatReadOnly ==
    (ret.op = "Stat" /\ ret.err = "ok") =>
        /\ ret.from = file.layers[1].id
        /\ \A b \in 0..31 :
               b \in ret.mode <=> (b \in ret.under /\ b \notin {1, 4, 7})

\* Stat of a directory that its layer reports as rwxrwxrwx.
C10_Witness ==
    /\ ret.op = "Stat" /\ ret.err = "ok"
    /\ ret.under = {0, 1, 2, 3, 4, 5, 6, 7, 8, 31}
    /\ ret.mode = {0, 2, 3, 5, 6, 8, 31}

\* C11: no mode a caller obtains through the merged file system, from Stat
\* on an open file or from the info of an entry ReadDir returned, has one
\* of the write bits 0222.
C11_NoWriteBits ==
    (ret.op \in {"Stat", "Info"} /\ ret.err = "ok") =>
        ret.mode \cap Bits(WriteBits) = {}

\* C12: once Seek to position 0 has succeeded on an open directory, listing
\* it to its end returns the names a fresh handle of the directory returns.
C12_SeekRewinds ==
    (Listed /\ hist.seeked) => Names(hist.emitted) = Names(FreshListing)

\* C13: when the open of the k-th visible layer fails, Open has opened the
\* k-1 layers before it, has closed every one of them, and returns no
\* file; when every open succeeds, Open closes none and the file owns one
\* open file per visible layer, in priority order; Close closes every file
\* the handle owns, whatever their Close returns, and reports no error.
C13_NoHandleLeak ==
    [][ /\ (ret'.op = "Open" /\ ret'.visible # <<>>) =>
              /\ \E m \in 0..Len(ret'.visible) :
                     ret'.opened = SubSeq(ret'.visible, 1, m)
              /\ ret'.err # "ok" =>
                     /\ ret'.closed = ret'.opened
                     /\ Len(ret'.opened) < Len(ret'.visible)
                     /\ ~file'.open
              /\ ret'.err = "ok" =>
                     /\ ret'.closed = <<>>
                     /\ file'.open
                     /\ Ids(file'.layers) = ret'.visible
        /\ (file.open /\ ~file'.open) =>
              /\ ret'.op = "Close" /\ ret'.err = "ok"
              /\ ret'.closed = Ids(file.layers) ]_vars

\* The open of the second of two visible layers failed: the file of the
\* first one was opened, and closed before Open returned.
C13_Witness ==
    /\ ret.op = "Open" /\ ret.err = "EIO"
    /\ Len(ret.visible) = 2
    /\ ret.opened = <<ret.visible[1]>>
    /\ ret.closed = <<ret.visible[1]>>
    /\ ~file.open

\* The names a layer adds to the mask set once it is drained.
MaskNames(u) ==
    { IF IsWhiteout(e.name) THEN TrimPrefix(e.name, whiteoutPrefix) ELSE e.name :
        e \in { d \in u.all : d.name # whiteoutOpaque } }

\* C14: when the read of an underlying directory fails during ReadDir(n),
\* for any n, the call returns that error, the failing layer remains the
\* one being drained, the mask set holds names of the layers above it only,
\* and the layers below it have not been read.
C14_LayerErrorPropagates ==
    (file.open /\ ret.op = "ReadDir" /\ ret.failed # 0) =>
        /\ ret.err = "EIO"
        /\ file.dirReader.files # <<>>
        /\ Head(file.dirReader.files) = ret.failed
        /\ file.dirReader.masks \subseteq
               UNION { MaskNames(file.layers[j]) : j \in 1..(ret.failed - 1) }
        /\ \A j \in (ret.failed + 1)..Len(file.layers) :
               file.layers[j].rest = file.layers[j].all

\* C15: no call of Open, Sub or ReadLink writes to the layer sequence of the
\* stack: the sequence stays the one fixed at construction, and no call
\* assigns to an element of it.
C15_StackNeverWritten ==
    [][ /\ layers' = layers
        /\ ret'.op = "Sub" => ret'.wrote = {} ]_vars

\* A path breaks the normalization rules when it is absolute or has an
\* empty component (an empty name), or has a component "." or "..".
BreaksRules(name) ==
    \E i \in 1..Len(name) : name[i] = <<>> \/ name[i] = <<".">> \/ name[i] = <<"..">>

\* The result of a call of Open, Sub or ReadLink with such a path.
InvalidCall == ret.op \in {"Open", "Sub", "ReadLink"} /\ BreaksRules(ret.name)

\* No layer took part in the call: whatever stat was set to fail did not
\* fail it, nothing was resolved, opened, rebased or read.
NoLayerCall ==
    /\ ret.err # "EIO"
    /\ ret.visible = <<>>
    /\ ret.op = "Open" => (ret.opened = <<>> /\ ~file.open)
    /\ ret.op = "Sub" => (ret.sub = <<>> /\ ret.wrote = {})
    /\ ret.op = "ReadLink" => ret.link = <<>>

\* C16 as stated: a call with a path that is not valid fails with an
\* invalid path error, distinct from not found, and calls no layer.
C16_InvalidPathError ==
    InvalidCall => (ret.err = "ErrInvalid" /\ NoLayerCall)

\* C16 amended: a call with a path that is not valid fails with the not
\* found error (fs.ErrNotExist), and calls no layer.
C16_InvalidPathNotExist ==
    InvalidCall => (ret.err = "ErrNotExist" /\ NoLayerCall)

\* Open of a/../x while the stat of a, a directory of the only layer, is
\* set to fail: the call fails with not found.
C16_Witness ==
    /\ ret.op = "Open" /\ ret.name = <<NA, <<"..">>, NX>>
    /\ Len(layers) = 1 /\ Kind(layers[1], <<NA>>) = "dir"
    /\ ret.fault = { <<NA>> }
    /\ ret.err = "ErrNotExist"

\* C17: a call of Open or Sub that succeeds has resolved its path to a
\* sequence of layers that is not empty, and the file Open returns owns at
\* least one underlying file; every resolved sequence lists layers of the
\* stack in the order of the stack.
C17_VisibleSetShape ==
    ret.op \in {"Open", "Sub", "ReadLink"} =>
        /\ (ret.op \in {"Open", "Sub"} /\ ret.err = "ok") => ret.visible # <<>>
        /\ (ret.op = "Open" /\ ret.err = "ok") => Len(file.layers) > 0
        /\ Range(ret.visible) \subseteq Range(Ids(layers))
        /\ \A i \in 1..Len(ret.visible) : \A j \in 1..Len(ret.visible) :
               i < j => ret.visible[i] > ret.visible[j]

\* The relative paths resolved in a stack that Sub returned.
SubNames ==
    { <<>>, <<NA>>, <<NA, NX>>, <<NA, NX, NZ>>, <<NX>>, <<NX, NZ>>, <<NZ>>,
      <<NY>>, <<NX, NY>> }

\* sub is layer rooted at p: it holds what layer holds below p, and no more.
RootedAt(sub, layer, p) ==
    /\ sub.id = layer.id
    /\ \A r \in DOMAIN sub.nodes :
           /\ (p \o r) \in DOMAIN layer.nodes
           /\ sub.nodes[r] = layer.nodes[p \o r]
    /\ \A t \in DOMAIN layer.nodes :
           (IsPrefixOf(p, t) /\ t # p) =>
               SubSeq(t, Len(p) + 1, Len(t)) \in DOMAIN sub.nodes

\* C18: when p resolves to a directory, the stack Sub(p) returns holds the
\* layers visible at p, each rooted at p, in the same order, and every
\* relative path q resolves in it as p/q resolves in the stack: to the
\* same layers in the same order, or to not found.
C18_SubReroots ==
    ( /\ ret.op = "Sub" /\ ret.err = "ok" /\ ret.visible # <<>>
      /\ Kind(LayerOf(ret.visible[1]), ret.name) = "dir" ) =>
        /\ Len(ret.sub) = Len(ret.visible)
        /\ \A i \in 1..Len(ret.sub) :
               RootedAt(ret.sub[i], LayerOf(ret.visible[i]), ret.name)
        /\ \A q \in SubNames :
               LET inSub   == lookup(ret.sub, q, {})
                   inStack == lookup(layers, ret.name \o q, {})
               IN  /\ inSub.err = inStack.err
                   /\ Ids(inSub.visible) = Ids(inStack.visible)
                   /\ \A i \in 1..Len(inSub.visible) :
                          RootedAt(inSub.visible[i], inStack.visible[i], ret.name)

\* Sub(a) of two layers that both hold the directory a/x: x resolves in the
\* returned stack to both layers, newest first, as a/x does in the stack.
C18_Witness ==
    /\ ret.op = "Sub" /\ ret.err = "ok" /\ ret.name = <<NA>>
    /\ Len(layers) = 2 /\ ret.visible = <<2, 1>>
    /\ \A l \in Range(layers) : Kind(l, <<NA, NX>>) = "dir"
    /\ Ids(lookup(ret.sub, <<NX>>, {}).visible) = <<2, 1>>
    /\ Ids(lookup(layers, <<NA, NX>>, {}).visible) = <<2, 1>>

\* No layer of the open directory has an entry left that is not masked: what
\* its directory has not listed yet is a whiteout, is masked by a whiteout
\* of a higher layer, or has the name of an entry of a higher layer.
NothingLeft ==
    \A i \in 1..Len(DirLayers) : \A e \in DirLayers[i].rest :
        \/ IsWhiteout(e.name)
        \/ MaskedAbove(i, e.name)
        \/ \E h \in 1..(i - 1) : e.name \in Names(DirLayers[h].all)

\* C19: ReadDir(n) with n > 0 returns at most n entries, a nil error only
\* with n entries, and fewer than n entries only with end-of-listing or a
\* layer error; end-of-listing is reported only when no layer has an
\* unmasked entry left, and from then on every ReadDir(n) returns no entry
\* and end-of-listing; ReadDir(n) with n <= 0 returns a nil error only when
\* it has returned all that was left, and no error unless a layer fails.
C19_BoundedReadDir ==
    /\ [] ( (file.open /\ ret.op = "ReadDir") =>
              /\ ret.n > 0 =>
                   /\ Len(ret.entries) <= ret.n
                   /\ ret.err = "ok" => Len(ret.entries) = ret.n
                   /\ Len(ret.entries) < ret.n => ret.err \in {"EOF", "EIO"}
                   /\ ret.err = "EIO" => ret.failed # 0
                   /\ ret.err = "EOF" => (Listed /\ NothingLeft)
              /\ ret.n <= 0 =>
                   /\ ret.err \in {"ok", "EIO"}
                   /\ ret.err = "ok" => (Listed /\ NothingLeft)
                   /\ ret.failed = 0 => ret.err = "ok" )
    /\ [][ (Listed /\ file'.open /\ ret'.op = "ReadDir" /\ ret'.n > 0) =>
               (ret'.entries = <<>> /\ ret'.err = "EOF") ]_vars

\* The layers of the open directory whose listing has been read to its end
\* and that the cursor has left behind.
Drained ==
    { j \in 1..Len(file.layers) :
        /\ file.layers[j].kind = "dir"
        /\ j \notin Range(file.dirReader.files)
        /\ file.layers[j].rest = {} }

====
